---- MODULE Spec2Model ----
(***************************************************************************)
(* Model of pong_game.py: the paddles, the ball, the score and life        *)
(* counters and the main loop, one action per loop iteration (tick),       *)
(* followed by the game-over screen.                                       *)
(***************************************************************************)
EXTENDS Integers, FiniteSets, Sequences, TLC

(* ---------------- constants of pong_game.py ---------------- *)
SCREEN_WIDTH == 800
SCREEN_HEIGHT == 600
PADDLE_WIDTH == 20
PADDLE_HEIGHT == 100
BALL_SIZE == 20
PLAYER_SPEED == 7
COMP_SPEED == 6
STARTING_LIVES == 3
BALL_SPEED == 7
PLAYER_X == 30
COMP_X == SCREEN_WIDTH - 30 - PADDLE_WIDTH

(* ---------------- bounds of the model ---------------- *)
\* number of ticks of one game in which the player holds an arrow key
MaxKeyTicks == 1

Abs(n) == IF n < 0 THEN -n ELSE n

Sign(n) == IF n < 0 THEN -1 ELSE IF n > 0 THEN 1 ELSE 0

Dirs == {-1, 1}

(* ---------------- pygame.Rect, as the game uses it ---------------- *)
\* a rect is [x, y, w, h]; top = y, left = x
Bottom(r) == r.y + r.h

Right(r) == r.x + r.w

CenterX(r) == r.x + (r.w \div 2)

CenterY(r) == r.y + (r.h \div 2)

\* rect.center = (cx, cy)
SetCenter(r, cx, cy) == [r EXCEPT !.x = cx - (r.w \div 2), !.y = cy - (r.h \div 2)]

\* rect.colliderect(other): overlap of positive area
Colliderect(a, b) ==
    /\ a.x < b.x + b.w
    /\ a.y < b.y + b.h
    /\ a.x + a.w > b.x
    /\ a.y + a.h > b.y

(* ---------------- load_sprite ---------------- *)
\* an image file: absent (or unreadable), or present with an image of some size
MissingFile == [found |-> FALSE, size |-> <<0, 0>>]

ImageFile(w, h) == [found |-> TRUE, size |-> <<w, h>>]

\* load_sprite: the size of the surface it returns, the image's if the file
\* loads and fallback_size if loading raises
LoadSprite(file, fallback_size) == IF file.found THEN file.size ELSE fallback_size

(* ---------------- Paddle ---------------- *)
\* Paddle.__init__: the rect is the rect of the surface load_sprite returned
SpritePaddle(x, y, is_player, file) ==
    LET size == LoadSprite(file, <<PADDLE_WIDTH, PADDLE_HEIGHT>>)
    IN  [rect |-> [x |-> x, y |-> y, w |-> size[1], h |-> size[2]],
         is_player |-> is_player]

\* Paddle.__init__ with the fallback surface of load_sprite
Paddle(x, y, is_player) == SpritePaddle(x, y, is_player, MissingFile)

\* Paddle.update without the clamp at the bottom
PaddleUpdate_NoBottomClamp(p, dy) ==
    LET y1 == p.rect.y + dy
    IN  [p EXCEPT !.rect.y = IF y1 < 0 THEN 0 ELSE y1]

\* Paddle.update(dy)
PaddleUpdate(p, dy) ==
    LET y1 == p.rect.y + dy
        y2 == IF y1 < 0 THEN 0 ELSE y1
        y3 == IF y2 + p.rect.h > SCREEN_HEIGHT THEN SCREEN_HEIGHT - p.rect.h ELSE y2
    IN  [p EXCEPT !.rect.y = y3]

(* ---------------- Ball ---------------- *)
\* Ball.reset that only redirects a vertical speed the ball already has
BallReset_StaleSpeed(b, dir_x, dir_y) ==
    [rect |-> SetCenter(b.rect, SCREEN_WIDTH \div 2, SCREEN_HEIGHT \div 2),
     speed_x |-> BALL_SPEED * dir_x,
     speed_y |-> (IF b.speed_y = 0 THEN BALL_SPEED ELSE Abs(b.speed_y)) * dir_y]

\* Ball.reset with a horizontal speed larger than paddle plus ball width
BallReset_Fast(b, dir_x, dir_y) ==
    [rect |-> SetCenter(b.rect, SCREEN_WIDTH \div 2, SCREEN_HEIGHT \div 2),
     speed_x |-> 48 * dir_x,
     speed_y |-> BALL_SPEED * dir_y]

\* Ball.reset with random.choice results dir_x, dir_y
BallReset(b, dir_x, dir_y) ==
    [rect |-> SetCenter(b.rect, SCREEN_WIDTH \div 2, SCREEN_HEIGHT \div 2),
     speed_x |-> BALL_SPEED * dir_x,
     speed_y |-> BALL_SPEED * dir_y]

\* Ball.__init__: the rect is the rect of the surface load_sprite returned
SpriteBall(dir_x, dir_y, file) ==
    LET size == LoadSprite(file, <<BALL_SIZE, BALL_SIZE>>)
    IN  BallReset([rect |-> [x |-> 0, y |-> 0, w |-> size[1], h |-> size[2]],
                   speed_x |-> 0, speed_y |-> 0], dir_x, dir_y)

\* Ball.__init__ with the fallback surface of load_sprite
NewBall(dir_x, dir_y) == SpriteBall(dir_x, dir_y, MissingFile)

\* the bounce test of Ball.update
HitsWall(r) == r.y <= 0 \/ Bottom(r) >= SCREEN_HEIGHT

\* Ball.update that bounces off the top only
BallUpdate_TopOnly(b) ==
    LET r == [b.rect EXCEPT !.x = @ + b.speed_x, !.y = @ + b.speed_y]
    IN  [b EXCEPT !.rect = r,
                  !.speed_y = IF r.y <= 0 THEN -@ ELSE @]

\* Ball.update
BallUpdate(b) ==
    LET r == [b.rect EXCEPT !.x = @ + b.speed_x, !.y = @ + b.speed_y]
    IN  [b EXCEPT !.rect = r,
                  !.speed_y = IF HitsWall(r) THEN -@ ELSE @]

VARIABLES ball, player_paddle, comp_paddle,
          player_score, player_lives, comp_score, comp_lives,
          running, quit_event, pc, over_text, screen, key_ticks

vars == <<ball, player_paddle, comp_paddle,
          player_score, player_lives, comp_score, comp_lives,
          running, quit_event, pc, over_text, screen, key_ticks>>

\* the values the main loop reads and writes, as one record
Game ==
    [ball |-> ball, player_paddle |-> player_paddle, comp_paddle |-> comp_paddle,
     player_score |-> player_score, player_lives |-> player_lives,
     comp_score |-> comp_score, comp_lives |-> comp_lives, running |-> running]

(* ---------------- steps of one iteration of the main loop ---------------- *)
\* event processing: a QUIT event clears running
EventProcessing(g, quit) == IF quit THEN [g EXCEPT !.running = FALSE] ELSE g

\* dy from the key state
KeyDy(up, down) == IF down THEN PLAYER_SPEED ELSE IF up THEN -PLAYER_SPEED ELSE 0

\* player input
PlayerInput(g, up, down) ==
    [g EXCEPT !.player_paddle = PaddleUpdate(@, KeyDy(up, down))]

\* computer paddle AI that looks at where the ball will be after its advance
CompAI_ReadsAhead(g) ==
    IF CenterY(BallUpdate(g.ball).rect) < CenterY(g.comp_paddle.rect)
    THEN [g EXCEPT !.comp_paddle = PaddleUpdate(@, -COMP_SPEED)]
    ELSE IF CenterY(BallUpdate(g.ball).rect) > CenterY(g.comp_paddle.rect)
         THEN [g EXCEPT !.comp_paddle = PaddleUpdate(@, COMP_SPEED)]
         ELSE g

\* computer paddle AI
CompAI(g) ==
    IF CenterY(g.ball.rect) < CenterY(g.comp_paddle.rect)
    THEN [g EXCEPT !.comp_paddle = PaddleUpdate(@, -COMP_SPEED)]
    ELSE IF CenterY(g.ball.rect) > CenterY(g.comp_paddle.rect)
         THEN [g EXCEPT !.comp_paddle = PaddleUpdate(@, COMP_SPEED)]
         ELSE g

\* ball.update()
MoveBall(g) == [g EXCEPT !.ball = BallUpdate(@)]

\* collision response that perturbs the horizontal speed as well
Bounce_PerturbsX(b, r) == [b EXCEPT !.speed_x = -@ + r, !.speed_y = @ + r]

\* collision response that perturbs speed_y and forgets to reverse speed_x
Bounce_NoReverse(b, r) == [b EXCEPT !.speed_y = @ + r]

\* collision response that stops the ball horizontally
Bounce_Stops(b, r) == [b EXCEPT !.speed_x = 0, !.speed_y = @ + r]

\* the collision response: reverse speed_x, perturb speed_y by r
Bounce(b, r) == [b EXCEPT !.speed_x = -@, !.speed_y = @ + r]

HitsPlayer(g) == Colliderect(g.ball.rect, g.player_paddle.rect) /\ g.ball.speed_x < 0

\* computer paddle test without the direction of the ball
HitsComp_AnyDirection(g) == Colliderect(g.ball.rect, g.comp_paddle.rect)

HitsComp(g) == Colliderect(g.ball.rect, g.comp_paddle.rect) /\ g.ball.speed_x > 0

\* collision with the player paddle; the set ranges over random.choice
CollidePlayer(g) ==
    IF HitsPlayer(g) THEN {[g EXCEPT !.ball = Bounce(@, r)] : r \in Dirs} ELSE {g}

\* collision with the computer paddle
CollideComp(g) ==
    IF HitsComp(g) THEN {[g EXCEPT !.ball = Bounce(@, r)] : r \in Dirs} ELSE {g}

OffLeft(g) == Right(g.ball.rect) < 0

\* right-exit test on the ball's right edge instead of its left edge
OffRight_RightEdge(g) == Right(g.ball.rect) > SCREEN_WIDTH

OffRight(g) == g.ball.rect.x > SCREEN_WIDTH

\* ExitLeft that forgets the life
ExitLeft_KeepsLife(g) ==
    IF OffLeft(g)
    THEN {[g EXCEPT !.comp_score = @ + 1,
                    !.ball = BallReset(@, dx, dy)] : dx \in Dirs, dy \in Dirs}
    ELSE {g}

\* ExitLeft that scores and leaves the reset out
ExitLeft_NoReset(g) ==
    IF OffLeft(g)
    THEN {[g EXCEPT !.comp_score = @ + 1, !.player_lives = @ - 1]}
    ELSE {g}

\* the ball left the left side
ExitLeft(g) ==
    IF OffLeft(g)
    THEN {[g EXCEPT !.comp_score = @ + 1, !.player_lives = @ - 1,
                    !.ball = BallReset(@, dx, dy)] : dx \in Dirs, dy \in Dirs}
    ELSE {g}

\* ExitRight that takes two lives
ExitRight_TwoLives(g) ==
    IF OffRight(g)
    THEN {[g EXCEPT !.player_score = @ + 1, !.comp_lives = @ - 2,
                    !.ball = BallReset(@, dx, dy)] : dx \in Dirs, dy \in Dirs}
    ELSE {g}

\* the ball left the right side
ExitRight(g) ==
    IF OffRight(g)
    THEN {[g EXCEPT !.player_score = @ + 1, !.comp_lives = @ - 1,
                    !.ball = BallReset(@, dx, dy)] : dx \in Dirs, dy \in Dirs}
    ELSE {g}

\* GameOverCheck that ends the game only below zero
GameOverCheck_BelowZero(g) ==
    IF g.player_lives < 0 \/ g.comp_lives < 0 THEN [g EXCEPT !.running = FALSE] ELSE g

\* GameOverCheck that looks at the player's lives only
GameOverCheck_PlayerOnly(g) ==
    IF g.player_lives <= 0 THEN [g EXCEPT !.running = FALSE] ELSE g

\* check for game over
GameOverCheck(g) ==
    IF g.player_lives <= 0 \/ g.comp_lives <= 0 THEN [g EXCEPT !.running = FALSE] ELSE g

\* drawing: the sprites' rects and the HUD numbers put on the screen
Draw(g) ==
    <<"game", g.ball.rect, g.player_paddle.rect, g.comp_paddle.rect,
      <<g.player_score, g.player_lives, g.comp_score, g.comp_lives>>>>

\* an iteration that advances the ball and tests the paddles before they move
TickResults_BallFirst(g, quit, up, down) ==
    LET g1 == MoveBall(EventProcessing(g, quit))
        s3 == UNION {CollideComp(g2) : g2 \in CollidePlayer(g1)}
        s5 == {[g4 EXCEPT !.player_paddle = PlayerInput(g, up, down).player_paddle,
                          !.comp_paddle = CompAI(g).comp_paddle] : g4 \in s3}
        s7 == UNION {ExitRight(g6) : g6 \in UNION {ExitLeft(g5) : g5 \in s5}}
    IN  {GameOverCheck(g7) : g7 \in s7}

\* the results of one iteration for the given events and key state
TickResults(g, quit, up, down) ==
    LET g3 == MoveBall(CompAI(PlayerInput(EventProcessing(g, quit), up, down)))
        s5 == UNION {CollideComp(g4) : g4 \in CollidePlayer(g3)}
        s7 == UNION {ExitRight(g6) : g6 \in UNION {ExitLeft(g5) : g5 \in s5}}
    IN  {GameOverCheck(g7) : g7 \in s7}

(* ---------------- the program ---------------- *)
Init ==
    /\ \E dx \in Dirs, dy \in Dirs : ball = NewBall(dx, dy)
    /\ player_paddle = Paddle(PLAYER_X, (SCREEN_HEIGHT \div 2) - (PADDLE_HEIGHT \div 2), TRUE)
    /\ comp_paddle = Paddle(COMP_X, (SCREEN_HEIGHT \div 2) - (PADDLE_HEIGHT \div 2), FALSE)
    /\ player_score = 0
    /\ player_lives = STARTING_LIVES
    /\ comp_score = 0
    /\ comp_lives = STARTING_LIVES
    /\ running = TRUE
    /\ quit_event = FALSE
    /\ pc = "loop"
    /\ over_text = "none"
    /\ screen = <<>>
    /\ key_ticks = 0

\* one iteration of the main loop
Tick ==
    /\ pc = "loop"
    /\ running
    /\ \E quit \in BOOLEAN, up \in BOOLEAN, down \in BOOLEAN :
         /\ key_ticks + (IF KeyDy(up, down) # 0 THEN 1 ELSE 0) <= MaxKeyTicks
         /\ key_ticks' = key_ticks + (IF KeyDy(up, down) # 0 THEN 1 ELSE 0)
         /\ quit_event' = quit
         /\ \E g \in TickResults(Game, quit, up, down) :
              /\ ball' = g.ball
              /\ player_paddle' = g.player_paddle
              /\ comp_paddle' = g.comp_paddle
              /\ player_score' = g.player_score
              /\ player_lives' = g.player_lives
              /\ comp_score' = g.comp_score
              /\ comp_lives' = g.comp_lives
              /\ running' = g.running
              /\ screen' = Draw(g)
    /\ UNCHANGED <<pc, over_text>>

\* the game-over screen, once the loop has ended
GameOverScreen ==
    /\ pc = "loop"
    /\ ~running
    /\ over_text' = IF player_lives <= 0 THEN "lost" ELSE "won"
    /\ screen' = <<"over", over_text'>>
    /\ pc' = "waiting"
    /\ UNCHANGED <<ball, player_paddle, comp_paddle, player_score, player_lives,
                   comp_score, comp_lives, running, quit_event, key_ticks>>

Next == Tick \/ GameOverScreen

Spec == Init /\ [][Next]_vars

(* ---------------- what one tick did, read off a step ---------------- *)
\* the step is an iteration of the main loop
IsTick == pc = "loop" /\ running

\* the ball's rect after the advance of Ball.update in this tick
AdvRect == [ball.rect EXCEPT !.x = @ + ball.speed_x, !.y = @ + ball.speed_y]

\* the bounce test of Ball.update held in this tick
TickWall == AdvRect.y <= 0 \/ AdvRect.y + AdvRect.h >= SCREEN_HEIGHT

\* the collision response for the player paddle fired in this tick
TickHitPlayer == Colliderect(AdvRect, player_paddle'.rect) /\ ball.speed_x < 0

\* the collision response for the computer paddle fired in this tick
TickHitComp ==
    Colliderect(AdvRect, comp_paddle'.rect) /\ ball.speed_x > 0 /\ ~TickHitPlayer

\* the ball left the left side in this tick
TickExitLeft == AdvRect.x + AdvRect.w < 0

\* the ball left the right side in this tick
TickExitRight == AdvRect.x > SCREEN_WIDTH

(* ---------------- C1 ---------------- *)
\* C1: score and lives move in lock-step: in every tick comp_score grows by 1
\* exactly when player_lives drops by 1, and player_score grows by 1 exactly
\* when comp_lives drops by 1; so comp_score + player_lives = STARTING_LIVES
\* and player_score + comp_lives = STARTING_LIVES in every state.
LockStepSum ==
    /\ comp_score + player_lives = STARTING_LIVES
    /\ player_score + comp_lives = STARTING_LIVES

LockStepTick ==
    /\ (comp_score' = comp_score + 1) <=> (player_lives' = player_lives - 1)
    /\ (player_score' = player_score + 1) <=> (comp_lives' = comp_lives - 1)
    /\ comp_score' \in {comp_score, comp_score + 1}
    /\ player_score' \in {player_score, player_score + 1}

C1_LockStep == []LockStepSum /\ [][LockStepTick]_vars

\* both kinds of scoring event have happened
C1_Witness == comp_score >= 1 /\ player_score >= 1 /\ LockStepSum

(* ---------------- C2 ---------------- *)
\* C2: the lives stay in 0..STARTING_LIVES and never increase from one tick to
\* the next; the scores are non-negative and never decrease.
CountersInRange ==
    /\ player_lives \in 0..STARTING_LIVES
    /\ comp_lives \in 0..STARTING_LIVES
    /\ player_score >= 0
    /\ comp_score >= 0

CountersMonotone ==
    /\ player_lives' <= player_lives
    /\ comp_lives' <= comp_lives
    /\ player_score' >= player_score
    /\ comp_score' >= comp_score

C2_LivesAndScores == []CountersInRange /\ [][CountersMonotone]_vars

\* a side has lost all its lives and the other one some
C2_Witness == player_lives = 0 /\ comp_lives = 1 /\ ~running

(* ---------------- C3 ---------------- *)
\* C3 as stated: the loop has stopped if and only if a side has no lives left.
C3_StopsOnlyOnLives == ~running <=> (player_lives <= 0 \/ comp_lives <= 0)

\* C3: the main loop has stopped if and only if player_lives <= 0 or
\* comp_lives <= 0 or a QUIT event was processed; it stops in the very tick in
\* which a side's lives reach 0, and once it has stopped no step changes a
\* score or a life counter.
StoppedIff == ~running <=> (player_lives <= 0 \/ comp_lives <= 0 \/ quit_event)

LivesGoneAfterAllExits ==
    /\ player_lives <= 0 <=> comp_score = STARTING_LIVES
    /\ comp_lives <= 0 <=> player_score = STARTING_LIVES

FrozenOnceStopped ==
    ~running => UNCHANGED <<player_score, player_lives, comp_score, comp_lives, running>>

C3_GameOver == [](StoppedIff /\ LivesGoneAfterAllExits) /\ [][FrozenOnceStopped]_vars

\* the loop ended without a QUIT event because the computer ran out of lives
C3_Witness == comp_lives = 0 /\ ~quit_event /\ ~running /\ pc = "waiting"

(* ---------------- C4 ---------------- *)
\* C4: after every Paddle.update, hence at the end of every tick, both
\* paddles lie within the screen vertically: 0 <= top and bottom <= SCREEN_HEIGHT.
PaddleInField(p) == 0 <= p.rect.y /\ Bottom(p.rect) <= SCREEN_HEIGHT

C4_PaddlesInField == PaddleInField(player_paddle) /\ PaddleInField(comp_paddle)

\* the computer paddle was clamped at the bottom edge (250 + 6k is never 500)
C4_Witness ==
    /\ Bottom(comp_paddle.rect) = SCREEN_HEIGHT
    /\ player_paddle.rect.y # (SCREEN_HEIGHT \div 2) - (PADDLE_HEIGHT \div 2)

(* ---------------- C5 ---------------- *)
\* the ball is as Ball.reset leaves it
FreshBall ==
    /\ CenterX(ball.rect) = SCREEN_WIDTH \div 2
    /\ CenterY(ball.rect) = SCREEN_HEIGHT \div 2
    /\ Abs(ball.speed_x) = 7
    /\ Abs(ball.speed_y) = 7

\* C5: after every ball reset (at creation and after each scoring event,
\* whatever speed_y was before) the ball's centre is the field centre and
\* |speed_x| = |speed_y| = 7.
C5_ResetInvariant ==
    /\ FreshBall
    /\ [][IsTick /\ (TickExitLeft \/ TickExitRight) => FreshBall']_vars

\* the ball has just been reset after the first scoring event, a right exit:
\* the computer paddle never misses the untouched first ball, so speed_y had
\* been perturbed by at least one paddle hit before this reset
C5_Witness ==
    /\ FreshBall
    /\ player_score = 1
    /\ comp_score = 0
    /\ ball.rect.x = SCREEN_WIDTH \div 2 - BALL_SIZE \div 2

(* ---------------- C6 ---------------- *)
\* C6 as stated: both speed components have magnitude 7 in every state.
C6_FixedMagnitude == Abs(ball.speed_x) = 7 /\ Abs(ball.speed_y) = 7

\* C6: |speed_x| = 7 in every reachable state; |speed_y| is 7 after every
\* reset, changes by exactly 1 in a tick with a paddle-collision response, and
\* is unchanged in every other tick (only its sign may change).
SpeedYStep ==
    IsTick =>
        IF TickExitLeft \/ TickExitRight
        THEN Abs(ball'.speed_y) = 7
        ELSE IF TickHitPlayer \/ TickHitComp
             THEN Abs(Abs(ball'.speed_y) - Abs(ball.speed_y)) = 1
             ELSE Abs(ball'.speed_y) = Abs(ball.speed_y)

C6_SpeedMagnitude == [](Abs(ball.speed_x) = 7) /\ [][SpeedYStep]_vars

\* the ball after a paddle hit, with a vertical speed that is no longer 7
C6_Witness == Abs(ball.speed_y) = 8 /\ ball.speed_x < 0 /\ ball.rect.x > SCREEN_WIDTH \div 2

(* ---------------- C7 ---------------- *)
\* C7: when the collision response fires for the player paddle (the ball
\* intersects it while speed_x < 0) speed_x is positive afterwards; when it
\* fires for the computer paddle (intersects while speed_x > 0) speed_x is
\* negative afterwards.
AwayFromPaddle ==
    IsTick =>
        /\ (Colliderect(AdvRect, player_paddle'.rect) /\ ball.speed_x < 0)
               => ball'.speed_x > 0
        /\ (Colliderect(AdvRect, comp_paddle'.rect) /\ ball.speed_x > 0)
               => ball'.speed_x < 0

C7_AwayFromPaddle == [][AwayFromPaddle]_vars

\* the ball moves right in the left half with |speed_y| back at 7: since the
\* last reset it was hit by the player paddle and by the computer paddle
C7_Witness ==
    /\ ball.speed_x > 0
    /\ Right(ball.rect) < SCREEN_WIDTH \div 2 - BALL_SIZE
    /\ Abs(ball.speed_y) = 7

(* ---------------- C8 ---------------- *)
\* C8 as stated: in every tick in which the advanced ball touches the top or
\* the bottom edge the sign of speed_y at the end of the tick is the opposite
\* of its sign at the start; in every other tick without a paddle collision
\* speed_y is unchanged.
WallFlipAsStated ==
    IsTick =>
        /\ TickWall => Sign(ball'.speed_y) = -Sign(ball.speed_y)
        /\ (~TickWall /\ ~TickHitPlayer /\ ~TickHitComp) => ball'.speed_y = ball.speed_y

C8_WallFlipEveryTick == [][WallFlipAsStated]_vars

\* C8: in every tick without a scoring event (which resets the ball): if the
\* advanced ball has top <= 0 or bottom >= SCREEN_HEIGHT, speed_y at the end
\* of the tick is the negation of its value at the start (perturbed by +1 or
\* -1 if a paddle-collision response fires in the same tick); in every other
\* such tick without a paddle collision speed_y is unchanged.
WallFlip ==
    (IsTick /\ ~TickExitLeft /\ ~TickExitRight) =>
        /\ (TickWall /\ ~TickHitPlayer /\ ~TickHitComp)
               => ball'.speed_y = -ball.speed_y
        /\ (TickWall /\ (TickHitPlayer \/ TickHitComp))
               => ball'.speed_y \in {-ball.speed_y - 1, -ball.speed_y + 1}
        /\ (~TickWall /\ ~TickHitPlayer /\ ~TickHitComp)
               => ball'.speed_y = ball.speed_y

C8_WallFlip == [][WallFlip]_vars

\* the ball touches the bottom edge and already moves up again, in mid-field
C8_Witness ==
    /\ Bottom(ball.rect) >= SCREEN_HEIGHT
    /\ ball.speed_y < 0
    /\ ball.rect.x > PLAYER_X + PADDLE_WIDTH
    /\ Right(ball.rect) < COMP_X

(* ---------------- C9 ---------------- *)
\* C9: in any tick at most one of the two scoring events (left exit, right
\* exit) occurs and it takes exactly one life from exactly one side; so
\* player_lives + comp_lives drops by at most 1 per tick.
OneLifePerTick ==
    /\ ~(comp_score' # comp_score /\ player_score' # player_score)
    /\ comp_score' # comp_score =>
           player_lives' = player_lives - 1 /\ comp_lives' = comp_lives
    /\ player_score' # player_score =>
           comp_lives' = comp_lives - 1 /\ player_lives' = player_lives
    /\ (player_lives + comp_lives) - (player_lives' + comp_lives') \in {0, 1}
    /\ (IsTick /\ TickExitLeft) => comp_score' = comp_score + 1
    /\ (IsTick /\ TickExitRight) => player_score' = player_score + 1

C9_OneLifePerTick == [][OneLifePerTick]_vars

\* each side has lost a life
C9_Witness == player_lives = STARTING_LIVES - 1 /\ comp_lives = STARTING_LIVES - 1

(* ---------------- C10 ---------------- *)
\* C10: on the game-over screen 'You lost' is reported exactly when
\* player_lives <= 0, and 'You won' only when comp_lives <= 0, also when the
\* loop was ended by a QUIT event.
C10_OutcomeNamesLoser ==
    pc = "waiting" =>
        /\ over_text = "lost" <=> player_lives <= 0
        /\ over_text = "won" => comp_lives <= 0

(* ---------------- C11 ---------------- *)
\* C11: every tick runs its steps in one fixed order: paddle moves, ball
\* advance with wall reflection, paddle collision checks, exit scoring with
\* reset, game-over check, drawing.  So the collision test uses both paddles
\* as moved in this tick, the scoring test uses the ball as advanced in this
\* tick, the game-over check uses the lives after scoring, and what is drawn is
\* the state at the end of the tick.
TickOrder ==
    IsTick =>
        LET hit == \/ Colliderect(AdvRect, player_paddle'.rect) /\ ball.speed_x < 0
                   \/ Colliderect(AdvRect, comp_paddle'.rect) /\ ball.speed_x > 0
        IN  /\ ~(TickExitLeft \/ TickExitRight) =>
                   /\ ball'.rect = AdvRect
                   /\ ball'.speed_x = IF hit THEN -ball.speed_x ELSE ball.speed_x
            /\ (comp_score' = comp_score + 1) <=> TickExitLeft
            /\ (player_score' = player_score + 1) <=> TickExitRight
            /\ running' <=> ~(quit_event' \/ player_lives' <= 0 \/ comp_lives' <= 0)
            /\ screen' = <<"game", ball'.rect, player_paddle'.rect, comp_paddle'.rect,
                           <<player_score', player_lives', comp_score', comp_lives'>>>>

C11_TickOrder == [][TickOrder]_vars

\* the last frame drawn shows the life lost in the tick that ended the game
C11_Witness ==
    /\ pc = "loop"
    /\ ~running
    /\ ~quit_event
    /\ Len(screen) = 5
    /\ screen[5][2] = 0

(* ---------------- C12 ---------------- *)
\* the main loop entered with the ball of the right-exit scenario: left bound
\* 790, speed (7, 0), clear of both paddles; everything else as constructed
ScenarioTops == {0, 300, 580}

ScenarioInit ==
    /\ \E top \in ScenarioTops :
         ball = [rect |-> [x |-> 790, y |-> top, w |-> BALL_SIZE, h |-> BALL_SIZE],
                 speed_x |-> 7, speed_y |-> 0]
    /\ player_paddle = Paddle(PLAYER_X, (SCREEN_HEIGHT \div 2) - (PADDLE_HEIGHT \div 2), TRUE)
    /\ comp_paddle = Paddle(COMP_X, (SCREEN_HEIGHT \div 2) - (PADDLE_HEIGHT \div 2), FALSE)
    /\ player_score = 0
    /\ player_lives = STARTING_LIVES
    /\ comp_score = 0
    /\ comp_lives = STARTING_LIVES
    /\ running = TRUE
    /\ quit_event = FALSE
    /\ pc = "loop"
    /\ over_text = "none"
    /\ screen = <<>>
    /\ key_ticks = 0

SpecScenario == ScenarioInit /\ [][Next]_vars

\* C12: right-exit scoring uses the strict test left bound > SCREEN_WIDTH: a
\* ball with left bound 790, speed_x = 7, speed_y = 0, clear of the paddles,
\* does not score in the next tick (left bound 797) and scores in the tick
\* after (left bound 804): player_score + 1, comp_lives - 1, the ball back at
\* the centre (400, 300) with |speed_x| = |speed_y| = 7.
RightExitScenario ==
    (IsTick /\ ball.speed_x = 7 /\ ball.speed_y = 0) =>
        /\ ball.rect.x = 790 =>
               /\ ball'.rect.x = 797
               /\ ball'.speed_x = 7
               /\ ball'.speed_y = 0
               /\ UNCHANGED <<player_score, player_lives, comp_score, comp_lives>>
        /\ ball.rect.x = 797 =>
               /\ player_score' = player_score + 1
               /\ comp_lives' = comp_lives - 1
               /\ UNCHANGED <<comp_score, player_lives>>
               /\ ball'.rect.x + 10 = 400
               /\ ball'.rect.y + 10 = 300
               /\ Abs(ball'.speed_x) = 7
               /\ Abs(ball'.speed_y) = 7

C12_RightExit == [][RightExitScenario]_vars

\* two ticks into the scenario: the point is scored, the ball is back at the
\* centre and the computer paddle has made its two moves towards the ball
C12_Witness ==
    /\ player_score = 1
    /\ comp_lives = STARTING_LIVES - 1
    /\ comp_score = 0
    /\ ball.rect.x = 390
    /\ ball.rect.y = 290
    /\ comp_paddle.rect.y \in {238, 250, 262}

(* ---------------- C13 ---------------- *)
\* the ball and the paddle overlap horizontally
InColumn(b, p) == b.rect.x < Right(p.rect) /\ Right(b.rect) > p.rect.x

\* C13: the ball never tunnels through a paddle: it is never wholly on the
\* field side of a paddle's horizontal extent at the end of one tick and
\* wholly on the outer side at the end of the next, so a ball that is on the
\* outer side was in the paddle's column, seen by a collision check, before.
NoTunnel ==
    IsTick =>
        /\ ball.rect.x >= Right(player_paddle.rect)
               => Right(ball'.rect) > player_paddle'.rect.x
        /\ Right(ball.rect) <= comp_paddle.rect.x
               => ball'.rect.x < Right(comp_paddle'.rect)
        /\ Right(ball'.rect) <= player_paddle'.rect.x
               => (Right(ball.rect) <= player_paddle.rect.x \/ InColumn(ball, player_paddle))
        /\ ball'.rect.x >= Right(comp_paddle'.rect)
               => (ball.rect.x >= Right(comp_paddle.rect) \/ InColumn(ball, comp_paddle))

C13_NoTunnel == [][NoTunnel]_vars

\* the ball has just passed the column of the player paddle, which missed it
C13_Witness ==
    /\ Right(ball.rect) <= player_paddle.rect.x
    /\ Right(ball.rect) + BALL_SPEED > player_paddle.rect.x
    /\ ball.speed_x < 0

(* ---------------- C14 ---------------- *)
\* the image files the game may find next to it: none, an image of the
\* configured size, or an image of another size
PlayerFiles == {MissingFile, ImageFile(PADDLE_WIDTH, PADDLE_HEIGHT)}

CompFiles == {MissingFile, ImageFile(PADDLE_WIDTH, PADDLE_HEIGHT)}

BallFiles == {MissingFile, ImageFile(BALL_SIZE, BALL_SIZE), ImageFile(16, 16)}

\* the state after construction, whatever image files are present
InitSprites ==
    /\ \E dx \in Dirs, dy \in Dirs, file \in BallFiles : ball = SpriteBall(dx, dy, file)
    /\ \E file \in PlayerFiles :
         player_paddle = SpritePaddle(PLAYER_X, (SCREEN_HEIGHT \div 2) - (PADDLE_HEIGHT \div 2),
                                      TRUE, file)
    /\ \E file \in CompFiles :
         comp_paddle = SpritePaddle(COMP_X, (SCREEN_HEIGHT \div 2) - (PADDLE_HEIGHT \div 2),
                                    FALSE, file)
    /\ player_score = 0
    /\ player_lives = STARTING_LIVES
    /\ comp_score = 0
    /\ comp_lives = STARTING_LIVES
    /\ running = TRUE
    /\ quit_event = FALSE
    /\ pc = "loop"
    /\ over_text = "none"
    /\ screen = <<>>
    /\ key_ticks = 0

SpecSprites == InitSprites /\ [][Next]_vars

\* C14: whether each sprite file loads or fails, the paddles' and the ball's
\* collision bounds have the configured sizes (PADDLE_WIDTH x PADDLE_HEIGHT,
\* BALL_SIZE x BALL_SIZE), so the simulation does not depend on which sprites
\* loaded.
C14_ConfiguredBounds ==
    /\ player_paddle.rect.w = PADDLE_WIDTH /\ player_paddle.rect.h = PADDLE_HEIGHT
    /\ comp_paddle.rect.w = PADDLE_WIDTH /\ comp_paddle.rect.h = PADDLE_HEIGHT
    /\ ball.rect.w = BALL_SIZE /\ ball.rect.h = BALL_SIZE

(* ---------------- C15 ---------------- *)
\* the move the computer paddle asks for, from the ball as it is before the
\* tick's advance
CompRequest ==
    LET ball_centery == ball.rect.y + (ball.rect.h \div 2)
        comp_centery == comp_paddle.rect.y + (comp_paddle.rect.h \div 2)
    IN  IF ball_centery < comp_centery THEN -COMP_SPEED
        ELSE IF ball_centery > comp_centery THEN COMP_SPEED
        ELSE 0

\* C15: in every tick the computer paddle's move is decided from the ball's
\* vertical centre before that tick's ball advance: -COMP_SPEED if it is above
\* the paddle's centre, +COMP_SPEED if below, no move if equal; one decision
\* per tick, applied through the clamp of Paddle.update.
CompTracksBall ==
    IsTick =>
        LET y1 == comp_paddle.rect.y + CompRequest
            y2 == IF y1 < 0 THEN 0 ELSE y1
            y3 == IF y2 + comp_paddle.rect.h > SCREEN_HEIGHT
                  THEN SCREEN_HEIGHT - comp_paddle.rect.h ELSE y2
        IN  comp_paddle' = [comp_paddle EXCEPT !.rect.y = y3]

C15_CompTracksBall == [][CompTracksBall]_vars

\* one tick into the game the computer paddle has held still, because the
\* ball was level with it before the advance, although the advanced ball is
\* not level with it any more
C15_Witness ==
    /\ Abs(ball.rect.x - 390) = 7
    /\ Abs(ball.rect.y - 290) = 7
    /\ comp_paddle.rect.y = 250
    /\ CompRequest # 0
    /\ player_score + comp_score = 0

(* ---------------- C16 ---------------- *)
\* speed_y as Ball.update leaves it in this tick
AfterWall == IF TickWall THEN -ball.speed_y ELSE ball.speed_y

\* C16: the paddle check leaves the velocity as Ball.update left it when the
\* ball is not moving toward the paddle it overlaps (the player paddle with
\* speed_x > 0, the computer paddle with speed_x < 0); and in one tick at
\* most one collision response is applied: one reversal of speed_x together
\* with one change of speed_y by +1 or -1.
PaddleCheckFrame ==
    (IsTick /\ ~TickExitLeft /\ ~TickExitRight) =>
        /\ (Colliderect(AdvRect, player_paddle'.rect) /\ ball.speed_x > 0)
               => (ball'.speed_x = ball.speed_x /\ ball'.speed_y = AfterWall)
        /\ (Colliderect(AdvRect, comp_paddle'.rect) /\ ball.speed_x < 0)
               => (ball'.speed_x = ball.speed_x /\ ball'.speed_y = AfterWall)
        /\ \/ ball'.speed_x = ball.speed_x /\ ball'.speed_y = AfterWall
           \/ ball'.speed_x = -ball.speed_x /\ ball'.speed_y \in {AfterWall - 1, AfterWall + 1}

WithinSides(r) == r.x + r.w >= 0 /\ r.x <= SCREEN_WIDTH

\* C17: scoring and the ball reset happen within the same tick, so at the end
\* of every tick, in the state the next tick starts from and in the frame
\* that was drawn, the ball is not beyond either side edge: right bound >= 0
\* and left bound <= SCREEN_WIDTH.
C17_BallWithinSides ==
    /\ WithinSides(ball.rect)
    /\ (Len(screen) = 5 => WithinSides(screen[2]))

\* the frame of a tick in which the computer scored shows the new score and
\* the ball already back at the centre
C17_Witness ==
    /\ Len(screen) = 5
    /\ screen[5][3] >= 1
    /\ screen[2].x = 390
    /\ screen[2].y = 290
    /\ ball.rect = screen[2]

(* ---------------- C18 ---------------- *)
\* a game the program reaches at its tick 818: the player has lost two lives
\* and won one point, and in the rally for the last life has just made the
\* third return, from the middle of the field; the ball leaves the player
\* paddle at (47, 389) with speed (7, -4), the paddles are where following
\* the ball has brought them, and that frame is on the screen
WallRallyInit ==
    /\ ball = [rect |-> [x |-> 47, y |-> 389, w |-> BALL_SIZE, h |-> BALL_SIZE],
               speed_x |-> 7, speed_y |-> -4]
    /\ player_paddle = Paddle(PLAYER_X, 353, TRUE)
    /\ comp_paddle = Paddle(COMP_X, 356, FALSE)
    /\ player_score = 1
    /\ player_lives = STARTING_LIVES - 2
    /\ comp_score = 2
    /\ comp_lives = STARTING_LIVES - 1
    /\ running = TRUE
    /\ quit_event = FALSE
    /\ pc = "loop"
    /\ over_text = "none"
    /\ screen = <<"game", ball.rect, player_paddle.rect, comp_paddle.rect,
                  <<player_score, player_lives, comp_score, comp_lives>> >>
    /\ key_ticks = 0

SpecWallRally == WallRallyInit /\ [][Next]_vars

\* C18: a wall reflection always sends the ball back into the field: at the
\* end of any tick in which the ball's top bound is <= 0 its vertical
\* velocity is > 0, and at the end of any tick in which its bottom bound is
\* >= SCREEN_HEIGHT its vertical velocity is < 0.
C18_ReflectsIntoField ==
    /\ ball.rect.y <= 0 => ball.speed_y > 0
    /\ Bottom(ball.rect) >= SCREEN_HEIGHT => ball.speed_y < 0

(* ---------------- C19 ---------------- *)
\* most ticks a rally can go on without a paddle-collision response or a
\* scoring event: the field width divided by the horizontal speed
MaxIdleTicks == SCREEN_WIDTH \div BALL_SPEED

\* ticks after which a ball that keeps its horizontal speed is beyond the
\* side edge it moves towards (defined for speed_x # 0)
TicksLeft(b) ==
    IF b.speed_x > 0
    THEN ((SCREEN_WIDTH - b.rect.x) \div b.speed_x) + 1
    ELSE ((b.rect.x + b.rect.w) \div (-b.speed_x)) + 1

\* speed_x changed sign in this tick
SignFlips == IsTick /\ Sign(ball'.speed_x) # Sign(ball.speed_x)

PaddleResponse == TickHitPlayer \/ TickHitComp

ScoringEvent == TickExitLeft \/ TickExitRight

\* speed_x is not 0 and the ball is at most MaxIdleTicks ticks from a side
MovesSideways ==
    /\ ball.speed_x # 0
    /\ TicksLeft(ball) \in 1..MaxIdleTicks

\* a tick without a response and without a scoring event brings the ball one
\* tick closer to the side it moves towards
IdleTickAdvances ==
    (IsTick /\ ~PaddleResponse /\ ~ScoringEvent) =>
        /\ ball'.speed_x = ball.speed_x
        /\ ball'.rect.x = ball.rect.x + ball.speed_x
        /\ TicksLeft(ball') = TicksLeft(ball) - 1

\* the statement with the sign of speed_x changing only in a paddle-collision
\* response
C19_SignOnlyInResponse ==
    /\ []MovesSideways
    /\ [][SignFlips => PaddleResponse]_vars
    /\ [][IdleTickAdvances]_vars

\* C19: every rally makes progress: speed_x is never 0 and changes sign only
\* in a paddle-collision response or in the reset of a scoring event; the
\* ball is never more than MaxIdleTicks ticks from the side it moves towards,
\* and every tick without a response and without a scoring event brings it
\* one tick closer; so, as long as ticks keep being executed, a response or a
\* scoring event occurs within MaxIdleTicks ticks.
C19_RallyProgress ==
    /\ []MovesSideways
    /\ [][SignFlips => (PaddleResponse \/ ScoringEvent)]_vars
    /\ [][IdleTickAdvances]_vars

\* a ball that has passed the player paddle and leaves the field in the next
\* tick, in a rally with at least one return
C19_Witness ==
    /\ IsTick
    /\ ball.speed_x < 0
    /\ TicksLeft(ball) = 1
    /\ Abs(ball.speed_y) # BALL_SPEED

====
